---- MODULE Spec2Model ----
(***************************************************************************)
(* The replay buffer and the SGLD sampler of JEM                           *)
(* (uncertainty_est/models/JEM/jem.py): construction, sample_p_0,          *)
(* sample_q and its callers.                                               *)
(*                                                                         *)
(* A sample is one scalar (data_shape of one element).  A float is either  *)
(* finite, one of the values 0..MaxVal, or non-finite (Inf or NaN), the   *)
(* one value NonFinite; an addition that leaves the finite range           *)
(* overflows to NonFinite, as IEEE addition does.                          *)
(***************************************************************************)
EXTENDS Integers, Sequences, FiniteSets

\* ---------------------------------------------------------------- bounds
MaxCap == 4
MaxTrainCap == 2
MaxClasses == 2
MaxVal == 1
BatchSize == 2
MaxSteps == 1
RandDen == 2

\* The default of sample_q's n_steps parameter.
DefaultNSteps == 20

VARIABLES phase, hp, replay_buffer, training, stack, cl

vars == <<phase, hp, replay_buffer, training, stack, cl>>

\* ---------------------------------------------------------------- values
Fin == 0..MaxVal
NonFinite == MaxVal + 1
Val == Fin \cup {NonFinite}
IsFinite(v) == v \in Fin

\* IEEE addition: a non-finite operand or an overflow gives a non-finite sum.
Add(a, b) ==
    IF a = NonFinite \/ b = NonFinite THEN NonFinite
    ELSE IF a + b \in Fin THEN a + b ELSE NonFinite

\* IEEE multiplication by the 0/1 mask of sample_p_0: 0 * NaN and 0 * Inf are NaN.
MaskMul(m, v) ==
    IF v = NonFinite THEN NonFinite ELSE IF m THEN v ELSE 0

None == <<>>
Pos == 1..BatchSize

\* init_random(bs, data_shape): bs finite samples drawn from the initial
\* distribution.
init_random(bs) == [1..bs -> Fin]


\* ------------------------------------------------- construction (__init__)
Weights == {0, 1}

\* The hyperparameters __init__ stores that the sampler reads.
Args ==
    [buffer_size : 0..MaxCap, n_classes : 1..MaxClasses, uncond : BOOLEAN,
     reinit_freq : 0..RandDen, sgld_steps : 0..MaxSteps,
     class_cond_p_x_sample : BOOLEAN, pxsgld : Weights, pxysgld : Weights]

\* The models driven through sample_q alone: the hyperparameters only
\* compute_losses reads are held at one value.
SamplerArgs ==
    {a \in Args : /\ a.sgld_steps = 0
                  /\ ~a.class_cond_p_x_sample
                  /\ a.pxsgld = 0
                  /\ a.pxysgld = 0}

\* The models driven through the training and validation steps.
TrainArgs == {a \in Args : a.buffer_size <= MaxTrainCap}

NoArgs ==
    [buffer_size |-> 0, n_classes |-> 1, uncond |-> TRUE, reinit_freq |-> 0,
     sgld_steps |-> 0, class_cond_p_x_sample |-> FALSE, pxsgld |-> 0,
     pxysgld |-> 0]

\* The assertion left out (or stripped, as python -O strips assertions).
DivisibilityCheck_Skipped(a) == TRUE

\* The assertion of lines 52-55.
DivisibilityCheck(a) == a.uncond \/ a.buffer_size % a.n_classes = 0

\* JEM.__init__: the hyperparameters are stored first; a class-conditional
\* model whose buffer size is not a multiple of n_classes fails the assertion
\* and no replay buffer is ever allocated.
JEM__init__(A) ==
    /\ phase = "new"
    /\ \E a \in A :
        /\ hp' = a
        /\ IF DivisibilityCheck(a)
           THEN /\ \E b \in init_random(a.buffer_size) : replay_buffer' = b
                /\ phase' = "ready"
           ELSE /\ replay_buffer' = replay_buffer
                /\ phase' = "AssertionError"
    /\ UNCHANGED <<training, stack, cl>>

\* ------------------------------------------------------------ sample_p_0
Labels == [Pos -> 0..(hp.n_classes - 1)]

\* replay_buffer[inds]: slot i of the tensor is element i + 1 of the sequence.
Read(buf, inds) == [j \in DOMAIN inds |-> buf[inds[j] + 1]]

\* The partition size of lines 169-171.
PartitionSize(buf, y) ==
    IF y = None THEN Len(buf) ELSE Len(buf) \div hp.n_classes

\* The label added to the offset without the partition size.
CondInds_NoPartitionSize(y, buffer_size, offs) ==
    [j \in Pos |-> IF y = None THEN offs[j] ELSE y[j] + offs[j]]

\* Line 175: the class-conditional index of a drawn offset.
CondInds(y, buffer_size, offs) ==
    [j \in Pos |-> IF y = None THEN offs[j] ELSE y[j] * buffer_size + offs[j]]

\* Line 182: the reinitialisation decisions of the uniform draws u.
ChooseRandom(u) == [j \in Pos |-> u[j] < hp.reinit_freq]

\* The comparison of line 182 taken as <=.
Mix_Inclusive(u, random_samples, buffer_samples) ==
    [j \in Pos |->
        LET choose_random == u[j] <= hp.reinit_freq
        IN Add(MaskMul(choose_random, random_samples[j]),
               MaskMul(~choose_random, buffer_samples[j]))]

\* Lines 182-185: position j is reinitialised when its uniform draw u[j] / RandDen
\* is below reinit_freq / RandDen; the mix is computed with the 0/1 mask.
Mix(u, random_samples, buffer_samples) ==
    [j \in Pos |->
        LET choose_random == ChooseRandom(u)[j]
        IN Add(MaskMul(choose_random, random_samples[j]),
               MaskMul(~choose_random, buffer_samples[j]))]

Raised(e) == [exc |-> e, samples |-> None, inds |-> None, choose_random |-> None]

\* sample_p_0, lines 169-186: the draw from a buffer that has slots.  A
\* partition of size 0 makes torch.randint(0, 0) raise; labels given to an
\* unconditional model fail the assertion of line 176.
DrawFromBuffer(buf, y) ==
    LET buffer_size == PartitionSize(buf, y)
    IN IF buffer_size = 0 THEN {Raised("RuntimeError")}
       ELSE IF y # None /\ hp.uncond THEN {Raised("AssertionError")}
       ELSE {[exc |-> "",
              samples |-> Mix(u, r, Read(buf, CondInds(y, buffer_size, o))),
              inds |-> CondInds(y, buffer_size, o),
              choose_random |-> ChooseRandom(u)] :
                o \in [Pos -> 0..(buffer_size - 1)],
                r \in init_random(BatchSize),
                u \in [Pos -> 0..(RandDen - 1)]}

\* sample_p_0 without the early return of lines 166-167.
sample_p_0_NoEmptyCheck(buf, y) == DrawFromBuffer(buf, y)

\* sample_p_0 refusing labels when the buffer has no slots.
sample_p_0_RejectsLabels(buf, y) ==
    IF Len(buf) = 0 /\ y # None THEN {Raised("AssertionError")}
    ELSE IF Len(buf) = 0
    THEN {[exc |-> "", samples |-> s, inds |-> None, choose_random |-> None] :
             s \in init_random(BatchSize)}
    ELSE DrawFromBuffer(buf, y)

\* sample_p_0(replay_buffer, bs, y): every outcome the random draws allow.
sample_p_0(buf, y) ==
    IF Len(buf) = 0
    THEN {[exc |-> "", samples |-> s, inds |-> None, choose_random |-> None] :
             s \in init_random(BatchSize)}
    ELSE DrawFromBuffer(buf, y)

\* -------------------------------------------------------------- sample_q
\* Line 211, one SGLD update of the batch: the increment sgld_lr * f_prime +
\* sgld_std * noise is any float; the score itself is finite or not.
SGLDStep(c) ==
    {[x_k |-> [j \in Pos |-> Add(c.x_k[j], d[j])],
      diverged |-> c.diverged \/ ~score_finite
                   \/ \E j \in Pos : Add(c.x_k[j], d[j]) = NonFinite] :
        d \in [Pos -> Val], score_finite \in BOOLEAN}

\* A loop that runs its body before it tests the count.
SGLDLoop_AtLeastOnce(n, S) == UNION {SGLDStep(c) : c \in S}

\* Lines 198-211: n_steps updates, none skipped.  S is the set of states the
\* loop can be in; once an update maps S to itself the remaining iterations
\* leave it so, and the recursion stops evaluating them.
RECURSIVE SGLDLoop(_, _)
SGLDLoop(n, S) ==
    IF n = 0 THEN S
    ELSE LET T == UNION {SGLDStep(c) : c \in S}
         IN IF T = S THEN S ELSE SGLDLoop(n - 1, T)

\* A write-back that stores the batch's first sample in every slot.
IndexPut_EverySlot(buf, inds, final) == {[s \in DOMAIN buf |-> final[1]]}

\* The write-back left out.
IndexPut_NoWrite(buf, inds, final) == {buf}

\* Line 217, replay_buffer[buffer_inds] = final_samples: a slot drawn once takes
\* its position's sample; a slot drawn at several positions takes the sample of
\* one of them (index_put_ leaves open which).  w names, for each drawn slot,
\* the position whose write stays.
IndexPut(buf, inds, final) ==
    LET Drawn(s) == \E j \in DOMAIN inds : inds[j] + 1 = s
        Winners == {w \in [DOMAIN buf -> DOMAIN inds] :
                       \A s \in DOMAIN buf :
                           IF Drawn(s) THEN inds[w[s]] + 1 = s ELSE w[s] = 1}
    IN {[s \in DOMAIN buf |-> IF Drawn(s) THEN final[w[s]] ELSE buf[s]] :
            w \in Winners}

\* The activation record of one sample_q call: its arguments and locals, where
\* it stands (pc), and the model mode and buffer it was called with.
Frame(y, n, r) ==
    [y |-> y, n_steps |-> n, inds |-> r.inds, init_sample |-> r.samples,
     choose_random |-> r.choose_random,
     x_k |-> r.samples, k |-> 0, diverged |-> FALSE,
     pc |-> IF r.exc = "" THEN "sgld" ELSE r.exc,
     pre_training |-> training, pre_buffer |-> replay_buffer]

InFlight(f) == f.pc \in {"sgld", "train"}

\* Calls that do not wait for one another.
CanCall_Always == TRUE

\* Python calls are synchronous: the statement after a sample_q call runs when
\* the call has returned.
CanCall == stack = <<>>

\* sample_q, lines 189-195: eval(), sample_p_0, clone.
sample_q_enter(y, n) ==
    /\ training' = FALSE
    /\ \E r \in sample_p_0(replay_buffer, y) :
        stack' = Append(stack, Frame(y, n, r))
    /\ UNCHANGED <<phase, hp, replay_buffer>>

\* sample_q, lines 198-211: the SGLD loop.
sample_q_sgld ==
    \E i \in DOMAIN stack :
        /\ stack[i].pc = "sgld"
        /\ \E c \in SGLDLoop(stack[i].n_steps,
                             {[x_k |-> stack[i].x_k, diverged |-> FALSE]}) :
            stack' = [stack EXCEPT ![i].x_k = c.x_k, ![i].diverged = c.diverged,
                                   ![i].k = stack[i].n_steps, ![i].pc = "train"]
        /\ UNCHANGED <<phase, hp, replay_buffer, training, cl>>

\* sample_q, lines 212-218: train(), detach, write-back, return.
sample_q_exit ==
    \E i \in DOMAIN stack :
        /\ stack[i].pc = "train"
        /\ training' = TRUE
        /\ IF Len(replay_buffer) > 0
           THEN replay_buffer' \in IndexPut(replay_buffer, stack[i].inds, stack[i].x_k)
           ELSE replay_buffer' = replay_buffer
        /\ stack' = [stack EXCEPT ![i].pc = "returned"]
        /\ UNCHANGED <<phase, hp, cl>>

Remove(s, i) == [j \in 1..(Len(s) - 1) |-> IF j < i THEN s[j] ELSE s[j + 1]]

\* A direct call of the sampler, with or without labels.
sample_q_call ==
    /\ phase = "ready"
    /\ cl.pc = "idle"
    /\ CanCall
    /\ \E y \in {None} \cup Labels, n \in 0..MaxSteps : sample_q_enter(y, n)
    /\ UNCHANGED cl

\* The caller takes the returned batch and goes on; an exception of sample_q
\* leaves compute_losses and the step.
caller_resume ==
    \E i \in DOMAIN stack :
        /\ ~InFlight(stack[i])
        /\ stack' = Remove(stack, i)
        /\ cl' = IF stack[i].pc = "returned" THEN cl
                 ELSE [cl EXCEPT !.pc = "idle"]
        /\ UNCHANGED <<phase, hp, replay_buffer, training>>

\* get_gt_preds / ood_detect, lines 142 and 153: self.eval().
eval_mode ==
    /\ phase = "ready"
    /\ cl.pc = "idle"
    /\ stack = <<>>
    /\ training
    /\ training' = FALSE
    /\ UNCHANGED <<phase, hp, replay_buffer, stack, cl>>

\* -------------------------------------------------------- compute_losses
\* training_step and validation_step: both hand the labelled batch to
\* compute_losses.
StepEnter ==
    /\ phase = "ready"
    /\ cl.pc = "idle"
    /\ stack = <<>>
    /\ \E y_lab \in Labels : cl' = [pc |-> "px", y_lab |-> y_lab]
    /\ UNCHANGED <<phase, hp, replay_buffer, training, stack>>

training_step == StepEnter

validation_step == StepEnter

\* Lines 72-90, log p(x): a class-conditional call leaves n_steps at its
\* default; the unconditional call passes sgld_steps.
compute_losses_px ==
    /\ cl.pc = "px"
    /\ CanCall
    /\ IF hp.pxsgld > 0
       THEN IF hp.class_cond_p_x_sample
            THEN IF hp.uncond
                 THEN /\ cl' = [cl EXCEPT !.pc = "idle"]
                      /\ UNCHANGED <<phase, hp, replay_buffer, training, stack>>
                 ELSE /\ \E y_q \in Labels : sample_q_enter(y_q, DefaultNSteps)
                      /\ cl' = [cl EXCEPT !.pc = "pxy"]
            ELSE /\ sample_q_enter(None, hp.sgld_steps)
                 /\ cl' = [cl EXCEPT !.pc = "pxy"]
       ELSE /\ cl' = [cl EXCEPT !.pc = "pxy"]
            /\ UNCHANGED <<phase, hp, replay_buffer, training, stack>>

\* Lines 92-97, log p(x|y).
compute_losses_pxy ==
    /\ cl.pc = "pxy"
    /\ CanCall
    /\ cl' = [cl EXCEPT !.pc = "reg"]
    /\ IF hp.pxysgld > 0
       THEN sample_q_enter(cl.y_lab, DefaultNSteps)
       ELSE UNCHANGED <<phase, hp, replay_buffer, training, stack>>

\* Lines 99-101: the energy regulariser and the return (fp is unbound, and the
\* step fails, when neither sampling loss is on).
compute_losses_return ==
    /\ cl.pc = "reg"
    /\ CanCall
    /\ cl' = [cl EXCEPT !.pc = "idle"]
    /\ UNCHANGED <<phase, hp, replay_buffer, training, stack>>

NoStep == [pc |-> "idle", y_lab |-> None]

Init ==
    /\ phase = "new"
    /\ hp = NoArgs
    /\ replay_buffer = <<>>
    /\ training = TRUE
    /\ stack = <<>>
    /\ cl = NoStep

\* The sampler driven directly.
Next ==
    \/ JEM__init__(SamplerArgs)
    \/ sample_q_call
    \/ sample_q_sgld
    \/ sample_q_exit
    \/ caller_resume
    \/ eval_mode

Spec == Init /\ [][Next]_vars

\* The sampler driven by the training and validation steps.
NextTrain ==
    \/ JEM__init__(TrainArgs)
    \/ training_step
    \/ validation_step
    \/ compute_losses_px
    \/ compute_losses_pxy
    \/ compute_losses_return
    \/ sample_q_sgld
    \/ sample_q_exit
    \/ caller_resume
    \/ eval_mode

SpecTrain == Init /\ [][NextTrain]_vars

\* ---------------------------------------------------------------- claims
Frames == {stack[i] : i \in DOMAIN stack}
ReturnedFrames == {f \in Frames : f.pc = "returned"}
EndedFrames == {f \in Frames : ~InFlight(f)}
Slot(f, j) == replay_buffer[f.inds[j] + 1]

\* C1 (as stated): after a sample_q call on a non-empty buffer, for every batch
\* position j the buffer slot drawn for j holds element j of the returned
\* batch, whatever index vector was drawn, duplicates included.
C1_RoundTripEveryPosition ==
    \A f \in ReturnedFrames :
        Len(replay_buffer) > 0 =>
            \A j \in DOMAIN f.inds : Slot(f, j) = f.x_k[j]

\* C1 (amended): after a sample_q call on a non-empty buffer, the slot drawn
\* for position j holds the returned sample of one of the positions that drew
\* that slot; it holds element j when no other position drew the slot.
C1_RoundTripSomePosition ==
    \A f \in ReturnedFrames :
        Len(replay_buffer) > 0 =>
            \A j \in DOMAIN f.inds :
                /\ \E k \in DOMAIN f.inds :
                    f.inds[k] = f.inds[j] /\ Slot(f, j) = f.x_k[k]
                /\ (\A k \in DOMAIN f.inds : f.inds[k] = f.inds[j] => k = j)
                       => Slot(f, j) = f.x_k[j]

\* A call has returned whose index vector names one slot twice, with two
\* different final samples at the two positions.
C1_Witness ==
    \E f \in ReturnedFrames :
        /\ Len(replay_buffer) > 0
        /\ \E j, k \in DOMAIN f.inds :
            j # k /\ f.inds[j] = f.inds[k] /\ f.x_k[j] # f.x_k[k]
        /\ f.n_steps > 0

\* C2: when a sample_q call has ended, by return or by exception, the model's
\* train/eval flag is what it was immediately before the call.
C2_ModeRestored ==
    \A f \in EndedFrames : training = f.pre_training

\* C3: a sample_q call in which a non-finite score or position appeared during
\* an SGLD step does not return normally and leaves the replay buffer exactly
\* as it was before the call.
C3_DivergenceLeavesBuffer ==
    \A f \in Frames :
        f.diverged => f.pc # "returned" /\ replay_buffer = f.pre_buffer

\* C4: every slot of the replay buffer of a constructed model holds a finite
\* sample, in every reachable state.
C4_BufferFinite ==
    phase = "ready" =>
        \A s \in DOMAIN replay_buffer : IsFinite(replay_buffer[s])

\* A call that started in evaluation mode has returned (the model is now in
\* training mode), and a call has ended by an exception.
C2_Witness ==
    \E f \in EndedFrames : ~f.pre_training /\ f.pc = "returned"

\* A call has written a non-finite sample into the buffer.
C3_Witness ==
    \E f \in ReturnedFrames :
        /\ f.diverged
        /\ \A s \in DOMAIN f.pre_buffer : IsFinite(f.pre_buffer[s])
        /\ \E s \in DOMAIN replay_buffer : ~IsFinite(replay_buffer[s])

\* C5: every slot index a class-conditional sample_p_0 call returns lies in
\* the block of its position's label, i // (C / K) = y[j], and inside the
\* buffer.
C5_ClassPartition ==
    \A f \in Frames :
        (f.y # None /\ f.inds # None) =>
            \A j \in DOMAIN f.inds :
                /\ f.inds[j] \div (Len(replay_buffer) \div hp.n_classes) = f.y[j]
                /\ 0 <= f.inds[j]
                /\ f.inds[j] < Len(replay_buffer)

\* A class-conditional call drew slots for two different labels.
C5_Witness ==
    \E f \in Frames :
        /\ f.y # None
        /\ f.inds # None
        /\ \E j, k \in DOMAIN f.y : f.y[j] # f.y[k]

\* C6: a class-conditional model is constructed, with a buffer of exactly
\* buffer_size slots, when n_classes divides buffer_size; otherwise
\* construction ends in the assertion error and there is no buffer.
C6_ConstructionCheck ==
    (phase # "new" /\ ~hp.uncond) =>
        IF hp.buffer_size % hp.n_classes = 0
        THEN phase = "ready" /\ Len(replay_buffer) = hp.buffer_size
        ELSE phase = "AssertionError" /\ replay_buffer = <<>> /\ stack = <<>>

\* Construction of a class-conditional model with an indivisible buffer size
\* has been refused.
C6_Witness ==
    /\ phase = "AssertionError"
    /\ ~hp.uncond
    /\ hp.buffer_size % hp.n_classes # 0

\* C7: a sample_q call with n_steps = 0 keeps its positions equal to the
\* initial batch of sample_p_0 and returns them; the model is in evaluation
\* mode during the call and in training mode after it.
C7_ZeroSteps ==
    \A f \in Frames :
        (f.n_steps = 0 /\ f.pc \in {"sgld", "train", "returned"}) =>
            /\ f.x_k = f.init_sample
            /\ f.k = 0
            /\ training = (f.pc = "returned")

\* A zero-step call on a non-empty buffer has returned.
C7_Witness ==
    \E f \in ReturnedFrames :
        f.n_steps = 0 /\ f.inds # None /\ ~f.pre_training

\* C8: with a buffer of zero capacity every sample_q call starts from freshly
\* drawn random samples, has no slot indices, raises nothing, and the buffer
\* stays empty.
C8_ReplayDisabled ==
    (phase = "ready" /\ hp.buffer_size = 0) =>
        /\ replay_buffer = <<>>
        /\ \A f \in Frames :
            /\ f.inds = None
            /\ f.init_sample \in init_random(BatchSize)
            /\ f.pc \in {"sgld", "train", "returned"}

\* A call with SGLD steps has returned on a model without replay buffer.
C8_Witness ==
    /\ hp.buffer_size = 0
    /\ \E f \in ReturnedFrames : f.n_steps > 0 /\ f.x_k # f.init_sample

\* C9: with reinit_freq = 0 a sample_q call of zero steps leaves every slot of
\* the replay buffer as it was before the call.
C9_BufferUnchanged ==
    \A f \in Frames :
        (hp.reinit_freq = 0 /\ f.n_steps = 0) => replay_buffer = f.pre_buffer

\* Such a call has returned after drawing one slot at two positions, on a
\* buffer whose slots differ.
C9_Witness ==
    \E f \in ReturnedFrames :
        /\ hp.reinit_freq = 0
        /\ f.n_steps = 0
        /\ f.inds # None
        /\ f.inds[1] = f.inds[2]
        /\ \E s, t \in DOMAIN replay_buffer : replay_buffer[s] # replay_buffer[t]

\* C10: while a sample_q call is between its read and its write-back no other
\* call is in flight on a slot it drew, and every slot it drew still holds the
\* value the call was started on.
C10_SerializedAccess ==
    \A i \in DOMAIN stack :
        InFlight(stack[i]) =>
            /\ \A j \in DOMAIN stack[i].inds :
                Slot(stack[i], j) = stack[i].pre_buffer[stack[i].inds[j] + 1]
            /\ \A k \in DOMAIN stack :
                (k # i /\ InFlight(stack[k])) =>
                    \A j \in DOMAIN stack[i].inds, l \in DOMAIN stack[k].inds :
                        stack[i].inds[j] # stack[k].inds[l]

\* The second sampling call of a compute_losses is in flight, after the first
\* has written the buffer.
C10_Witness ==
    /\ cl.pc = "reg"
    /\ hp.pxsgld > 0
    /\ \E f \in Frames : f.pc = "train" /\ f.inds # None /\ f.k = DefaultNSteps

\* C11 (as stated): a sampling request with labels against a buffer of zero
\* capacity ends in a configuration error and returns no batch.
C11_ZeroCapacityLabelsRejected ==
    \A f \in Frames :
        (Len(f.pre_buffer) = 0 /\ f.y # None) =>
            f.pc \notin {"sgld", "train", "returned"}

\* C11 (amended): a sampling request with labels against a buffer of zero
\* capacity raises nothing: the model was constructed, sample_p_0 hands out
\* freshly drawn samples and no slot indices, and the buffer stays empty.
C11_ZeroCapacityLabelsServed ==
    \A f \in Frames :
        (Len(f.pre_buffer) = 0 /\ f.y # None) =>
            /\ phase = "ready"
            /\ f.pc \in {"sgld", "train", "returned"}
            /\ f.inds = None
            /\ f.init_sample \in init_random(BatchSize)
            /\ replay_buffer = <<>>

\* A labelled call on a class-conditional model without buffer has returned.
C11_Witness ==
    \E f \in ReturnedFrames :
        /\ ~hp.uncond
        /\ hp.buffer_size = 0
        /\ f.y # None
        /\ \E j, k \in DOMAIN f.y : f.y[j] # f.y[k]

\* C12: every sample_q call that compute_losses issues performs exactly
\* sgld_steps SGLD updates before its write-back.
C12_ConfiguredSteps ==
    \A f \in Frames :
        (cl.pc # "idle" /\ f.pc \in {"train", "returned"}) =>
            f.k = hp.sgld_steps /\ f.n_steps = hp.sgld_steps

\* A labelled call of compute_losses has run the default number of steps on a
\* model configured with fewer.
C12_Witness ==
    \E f \in ReturnedFrames :
        /\ cl.pc # "idle"
        /\ f.y # None
        /\ f.inds # None
        /\ f.k = DefaultNSteps
        /\ hp.sgld_steps < DefaultNSteps

\* C13: on a non-empty buffer sample_p_0 hands out, for each position j, a
\* freshly drawn random sample when j's reinitialisation decision is true and
\* the content of the slot drawn for j when it is false; either way the slot
\* index of j is handed out and sample_q writes the position back to it.
C13_InitialStateMixing ==
    \A f \in Frames :
        f.inds # None =>
            \A j \in DOMAIN f.inds :
                /\ f.inds[j] \in 0..(Len(f.pre_buffer) - 1)
                /\ IF f.choose_random[j]
                   THEN f.init_sample[j] \in Fin
                   ELSE f.init_sample[j] = f.pre_buffer[f.inds[j] + 1]
                /\ f.pc = "returned" =>
                    \E k \in DOMAIN f.inds :
                        f.inds[k] = f.inds[j] /\ Slot(f, j) = f.x_k[k]

\* A position was reinitialised over a slot that holds a non-finite sample.
C13_Witness ==
    \E f \in Frames :
        /\ f.inds # None
        /\ \E j \in DOMAIN f.inds :
            /\ f.choose_random[j]
            /\ ~IsFinite(f.pre_buffer[f.inds[j] + 1])
            /\ ~IsFinite(f.init_sample[j])

\* ------------------------------------------------------------- fairness
\* The models of the fair runs: driven through sample_q alone, with a
\* non-empty buffer and reinit_freq > 0.
FairArgs ==
    {a \in SamplerArgs : /\ a.buffer_size \in 1..MaxTrainCap
                         /\ a.reinit_freq > 0}

\* A call whose draws all fall on slot s and whose decisions all reinitialise:
\* an outcome of torch.randint and torch.rand of positive probability when
\* reinit_freq > 0.
DrawFresh(s) ==
    /\ sample_q_call
    /\ LET f == stack'[Len(stack')]
       IN /\ f.inds # None
          /\ \A j \in DOMAIN f.inds : f.inds[j] = s - 1 /\ f.choose_random[j]

\* An unbounded sequence of sample_q calls.
NextFair ==
    \/ JEM__init__(FairArgs)
    \/ sample_q_call
    \/ sample_q_sgld
    \/ sample_q_exit
    \/ caller_resume

\* Calls run to their end, and a draw that stays possible is made again and
\* again.
SpecFair ==
    /\ Init
    /\ [][NextFair]_vars
    /\ WF_vars(sample_q_sgld)
    /\ WF_vars(sample_q_exit)
    /\ WF_vars(caller_resume)
    /\ \A s \in 1..MaxTrainCap : SF_vars(DrawFresh(s))

\* Slot s has just been overwritten by a call whose chain for it started from
\* a freshly drawn random sample.
Refreshed(s) ==
    \E f \in ReturnedFrames :
        /\ f.inds # None
        /\ \E j \in DOMAIN f.inds :
            /\ f.inds[j] = s - 1
            /\ f.choose_random[j]
            /\ IsFinite(f.init_sample[j])
            /\ replay_buffer[s] = f.x_k[j]

\* C14: with reinit_freq > 0 and fair draws, every slot of a non-empty buffer
\* is eventually drawn and overwritten by a write-back whose chain started
\* from a fresh random sample.
C14_EventualRefresh ==
    \A s \in 1..MaxTrainCap :
        (phase = "ready" /\ hp.reinit_freq > 0 /\ s <= Len(replay_buffer))
            ~> Refreshed(s)

\* A slot holds a non-finite sample although reinitialisation is on: every
\* chain drawn from it starts non-finite.
C14_Witness ==
    /\ phase = "ready"
    /\ hp.reinit_freq > 0
    /\ stack = <<>>
    /\ \E s \in DOMAIN replay_buffer : ~IsFinite(replay_buffer[s])

\* The slots the call of frame f drew.
DrawnSlots(f) ==
    IF f.inds = None THEN {}
    ELSE {f.inds[j] + 1 : j \in DOMAIN f.inds}

\* C15: the replay buffer changes only in the write-back that ends a sample_q
\* call, and there only at the slots sample_p_0 drew for that call; the SGLD
\* steps leave it as the call found it, and through every step of a
\* constructed model its length stays the constructed capacity.
C15_CallFrame ==
    [][phase = "ready" =>
        /\ Len(replay_buffer) = hp.buffer_size
        /\ Len(replay_buffer') = hp.buffer_size
        /\ \A f \in Frames : InFlight(f) => replay_buffer = f.pre_buffer
        /\ replay_buffer' # replay_buffer =>
            \E i \in DOMAIN stack :
                /\ stack[i].pc = "train"
                /\ stack'[i].pc = "returned"
                /\ \A s \in DOMAIN replay_buffer :
                    s \notin DrawnSlots(stack[i]) =>
                        replay_buffer'[s] = stack[i].pre_buffer[s]]_vars

\* A call that ran SGLD steps has returned: a slot it drew holds a new value,
\* a slot it did not draw holds its pre-call value.
C15_Witness ==
    \E f \in ReturnedFrames :
        /\ f.n_steps > 0
        /\ \E s \in DrawnSlots(f) : replay_buffer[s] # f.pre_buffer[s]
        /\ \E s \in DOMAIN replay_buffer \ DrawnSlots(f) :
            replay_buffer[s] = f.pre_buffer[s]
        /\ Len(replay_buffer) = hp.buffer_size

====

